---- MODULE Spec2Model ----
(***************************************************************************)
(* State-machine model of index.mjs: the OSC bridge helpers (sendMessage,  *)
(* waitForMessage, getTempo, setTempo) and the conversation dispatcher     *)
(* main().  JavaScript runs handlers to completion: continuations of       *)
(* settled promises (microtasks) run before the next I/O event, so I/O     *)
(* events are only taken when no continuation is runnable (Quiescent).     *)
(***************************************************************************)
EXTENDS Integers, Sequences, FiniteSets, TLC

\* ---------------------------------------------------------------- bounds
\* most tool calls in the first completion response
MaxToolCalls == 2
\* most packets the peer sends without having been asked
MaxUnsolicited == 1
\* most calls the sequential caller of getTempo/setTempo makes
MaxOps == 5
\* most calls the overlapping callers of getTempo/setTempo make
MaxConc == 2

\* ------------------------------------------------------------- constants
GetAddress == "/live/song/get/tempo"
SetAddress == "/live/song/set/tempo"
Addresses == {GetAddress, SetAddress}

\* tempo values used by callers and by the peer
Bpms == {120, 140}

\* process.env.OPENAI_API_KEY: absent, empty, or a usable key
Keys == {"absent", "empty", "sk-valid"}

\* message contents a completion can carry
Contents == {"It is 120 bpm.", "Hello!"}

\* ------------------------------------------------------------- JS values
Undefined == [t |-> "undefined", v |-> 0]
Num(n) == [t |-> "number", v |-> n]
\* an object literal; v is its bpm property (0: no such property)
Obj(bpm) == [t |-> "object", v |-> bpm]

\* argument strings: "{}", "{\"bpm\":120}" and "120" are JSON, "{bpm" is not
IsValidJSON(s) == s \in {"{}", "{\"bpm\":120}", "120"}

\* JSON.parse(toolCall.function.arguments) for the valid strings
JSONParse(s) ==
  CASE s = "{}" -> Obj(0)
    [] s = "{\"bpm\":120}" -> Obj(120)
    [] s = "120" -> Num(120)
    [] OTHER -> Undefined

\* availableFunctions[functionName]: a property read on an object literal,
\* which also finds what the literal inherits from Object.prototype
availableFunctions(functionName) ==
  CASE functionName = "get_song_tempo" -> "getTempo"
    [] functionName = "set_song_tempo" -> "setTempo"
    [] functionName = "toString" -> "Object.prototype.toString"
    [] OTHER -> "undefined"

\* the own keys of the availableFunctions literal
OwnTools == {"get_song_tempo", "set_song_tempo"}

\* ---------------------------------------------------------------- packets
NoPacket == [id |-> 0, address |-> "", args |-> <<>>, re |-> 0]

\* an OSC.Message is a plain object: toString() is Object.prototype's
MessageToString(message) == "[object Object]"

\* Object.prototype.toString called as a bare function (this undefined)
BareToString == "[object Undefined]"

\* OSC atomic argument types the message constructor accepts
IsAtomic(x) == x.t = "number"

\* new OSC.Message(address, ...args) sent by osc.send: a non-atomic
\* argument is outside the message library's contract, it may be refused
\* (an exception) or packed as it is
SendOutcomes(args) ==
  IF \A i \in 1..Len(args) : IsAtomic(args[i]) THEN {"sent"} ELSE {"sent", "throw"}

\* ------------------------------------------------------------- transcript
SystemMessage ==
  [role |-> "system",
   content |-> "You are a smart Ableton Live controller. You receive commands in natural language and use tools to interact with the Live set.",
   tool_call_id |-> 0, name |-> "", tool_calls |-> <<>>]
UserMessage ==
  [role |-> "user", content |-> "Hello, what's the song tempo?",
   tool_call_id |-> 0, name |-> "", tool_calls |-> <<>>]
InitialMessages == <<SystemMessage, UserMessage>>

\* responseMessage as pushed on the transcript
AssistantMessage(resp) ==
  [role |-> "assistant", content |-> resp.content,
   tool_call_id |-> 0, name |-> "", tool_calls |-> resp.tool_calls]

\* the record pushed after a tool call returned
ToolRecordUncorrelated(toolCall, content) ==
  [role |-> "tool", content |-> content,
   tool_call_id |-> 0, name |-> toolCall.name, tool_calls |-> <<>>]
ToolRecord(toolCall, content) ==
  [role |-> "tool", content |-> content,
   tool_call_id |-> toolCall.id, name |-> toolCall.name, tool_calls |-> <<>>]

\* tool calls of a response: ids are unique within the response
ToolCallAt(i, name, arguments) == [id |-> 100 + i, name |-> name, arguments |-> arguments]

\* the (name, arguments) pairs a tool call of a response is drawn from
ToolCallInputs ==
  {<<"get_song_tempo", "{}">>, <<"get_song_tempo", "{bpm">>,
   <<"set_song_tempo", "{\"bpm\":120}">>, <<"set_song_tempo", "120">>,
   <<"toString", "{}">>, <<"toString", "{bpm">>,
   <<"play_song", "{}">>}

ToolCallLists ==
  UNION {{[i \in 1..n |-> ToolCallAt(i, f[i][1], f[i][2])] :
            f \in [1..n -> ToolCallInputs]} : n \in 0..MaxToolCalls}

\* completion.choices[0]?.message of the first completion; has_tool_calls
\* FALSE is a message without a tool_calls property (or no message at all)
Responses ==
  {[content |-> c, has_tool_calls |-> FALSE, tool_calls |-> <<>>] : c \in Contents}
  \cup {[content |-> c, has_tool_calls |-> TRUE, tool_calls |-> tcs] :
          c \in Contents, tcs \in ToolCallLists}

NoResponse == [content |-> "", has_tool_calls |-> FALSE, tool_calls |-> <<>>]

\* if (toolCalls): undefined is falsy, every array (also []) is truthy
Truthy(resp) == resp.has_tool_calls

\* ------------------------------------------------------ the openai client
\* new OpenAI(process.env.OPENAI_API_KEY): the key the client works with
ClientKeyHardcoded(envKey) == "sk-valid"
ClientKey(envKey) == envKey

\* what constructing the client can do: without a key the client library
\* may refuse to be constructed, which ends the module before main() runs
ConstructorOutcomes(key) == IF key = "absent" THEN {"throw", "ok"} ELSE {"ok"}

\* what openai.chat.completions.create can do: without a usable key the
\* service rejects the request; with one it answers or fails (network)
CreateOutcomes(key) == IF key = "sk-valid" THEN {"ok", "rejected"} ELSE {"rejected"}

\* ------------------------------------------------------------------ state
VARIABLES
  apiKey,     \* process.env.OPENAI_API_KEY
  mainpc,     \* where the module / main() stands
  response,   \* responseMessage of the first completion
  idx,        \* position of the for-of loop in toolCalls (1-based)
  cur,        \* the call main awaits (0: none)
  messages,   \* the transcript
  printed,    \* what console.log has written
  requested,  \* completion requests made so far
  calls,      \* invocations of getTempo / setTempo
  listeners,  \* handlers registered with osc.on, in registration order
  sent,       \* packets sent to the peer, in order
  answered,   \* requests the peer has replied to
  net,        \* packets on their way from the peer
  emitted,    \* the packets the peer has sent so far, in order
  tempo,      \* the tempo the peer stores
  unsol,      \* unsolicited packets sent so far
  lastSet     \* tempo a sequential caller last set (the peer's at start)

mainVars == <<apiKey, mainpc, response, idx, cur, messages, printed, requested>>
bridgeVars == <<calls, listeners, sent>>
peerVars == <<answered, net, emitted, tempo, unsol>>
vars == <<apiKey, mainpc, response, idx, cur, messages, printed, requested,
          calls, listeners, sent, answered, net, emitted, tempo, unsol, lastSet>>

\* ------------------------------------------------------------ the bridge
AddressOf(fn) == IF fn = "getTempo" THEN GetAddress ELSE SetAddress

\* getTempo sends no argument (whatever it is called with)
getTempoArgs(arg) == <<>>

\* setTempo(bmp) sends bmp as the only argument
setTempoArgsDropped(bmp) == <<>>
setTempoArgs(bmp) == <<bmp>>

SendArgs(fn, arg) == IF fn = "getTempo" THEN getTempoArgs(arg) ELSE setTempoArgs(arg)

PendingPromise == [settled |-> FALSE, value |-> NoPacket]

\* resolve(message): settles a pending promise, a no-op on a settled one
resolveOverwrite(promise, message) == [settled |-> TRUE, value |-> message]
resolve(promise, message) ==
  IF promise.settled THEN promise ELSE [settled |-> TRUE, value |-> message]

\* osc.on(address, handler): every handler registered on the address is
\* called with the packet; handlers are never removed
NotifiedOldestPending(address) ==
  LET P == {l \in DOMAIN listeners :
              listeners[l].address = address /\ ~listeners[l].promise.settled}
  IN {l \in P : \A k \in P : l <= k}
Notified(address) == {l \in DOMAIN listeners : listeners[l].address = address}

\* `await waitForMessage(address)` continues once the promise is settled
SettledOrNot(l) == TRUE
Settled(l) == listeners[l].promise.settled

NewCall(fn, arg, owner, tool, expect) ==
  [fn |-> fn, arg |-> arg, pc |-> "send", lis |-> 0, req |-> 0,
   ret |-> NoPacket, owner |-> owner, tool |-> tool, expect |-> expect]

CallDone(c) == calls[c].pc \in {"returned", "rejected"}

CallRunnable(c) ==
  \/ calls[c].pc \in {"send", "sent"}
  \/ calls[c].pc = "wait" /\ Settled(calls[c].lis)

MainRunnable ==
  \/ mainpc \in {"boot", "loop"}
  \/ mainpc = "awaitcall" /\ CallDone(cur)

\* no continuation is runnable: the event loop takes the next I/O event
QuiescentMainOnly == ~MainRunnable
Quiescent == ~MainRunnable /\ \A c \in DOMAIN calls : ~CallRunnable(c)

\* await sendMessage(address, ...args)
CallSend(c) ==
  /\ calls[c].pc = "send"
  /\ \E outcome \in SendOutcomes(SendArgs(calls[c].fn, calls[c].arg)) :
       IF outcome = "throw"
       THEN /\ calls' = [calls EXCEPT ![c].pc = "rejected"]
            /\ sent' = sent
       ELSE /\ sent' = Append(sent, [address |-> AddressOf(calls[c].fn),
                                    args |-> SendArgs(calls[c].fn, calls[c].arg),
                                    call |-> c])
            /\ calls' = [calls EXCEPT ![c].pc = "sent", ![c].req = Len(sent) + 1]
  /\ UNCHANGED <<mainVars, listeners, peerVars, lastSet>>

\* waitForMessage(address): new Promise + osc.on
CallRegister(c) ==
  /\ calls[c].pc = "sent"
  /\ listeners' = Append(listeners, [address |-> AddressOf(calls[c].fn),
                                     promise |-> PendingPromise,
                                     received |-> <<>>])
  /\ calls' = [calls EXCEPT ![c].pc = "wait", ![c].lis = Len(listeners) + 1]
  /\ UNCHANGED <<mainVars, sent, peerVars, lastSet>>

\* const message = await waitForMessage(address); return message
CallReturn(c) ==
  /\ calls[c].pc = "wait"
  /\ Settled(calls[c].lis)
  /\ calls' = [calls EXCEPT ![c].pc = "returned",
                            ![c].ret = listeners[calls[c].lis].promise.value]
  /\ UNCHANGED <<mainVars, listeners, sent, peerVars, lastSet>>

\* a packet from the peer arrives on the socket
Deliver(p) ==
  /\ p \in net
  /\ Quiescent
  /\ net' = net \ {p}
  /\ listeners' = [l \in DOMAIN listeners |->
                     IF l \in Notified(p.address)
                     THEN [listeners[l] EXCEPT !.received = Append(@, p.id),
                                               !.promise = resolve(@, p)]
                     ELSE listeners[l]]
  /\ UNCHANGED <<mainVars, calls, sent, answered, emitted, tempo, unsol, lastSet>>

\* ---------------------------------------------------------------- the peer
\* the tempo a request asks the peer to store (0: none)
RequestedTempo(request) ==
  IF request.address = SetAddress /\ Len(request.args) = 1 /\ request.args[1].t = "number"
  THEN request.args[1].v ELSE 0

\* a packet leaves the peer for port 11001
PeerEmits(p) ==
  /\ net' = net \cup {p}
  /\ emitted' = Append(emitted, p)

\* the peer handles a request: stores the tempo of a set, replies on the
\* request's address with the tempo it now stores
PeerReply(r) ==
  /\ r \in DOMAIN sent
  /\ r \notin answered
  /\ LET t == IF RequestedTempo(sent[r]) # 0 THEN RequestedTempo(sent[r]) ELSE tempo
     IN /\ tempo' = t
        /\ PeerEmits([id |-> Len(emitted) + 1, address |-> sent[r].address,
                       args |-> <<t>>, re |-> r])
  /\ answered' = answered \cup {r}
  /\ UNCHANGED <<mainVars, bridgeVars, unsol, lastSet>>

\* the peer sends a packet nobody asked for (it carries the stored tempo)
PeerUnsolicited(address) ==
  /\ unsol < MaxUnsolicited
  /\ unsol' = unsol + 1
  /\ PeerEmits([id |-> Len(emitted) + 1, address |-> address, args |-> <<tempo>>, re |-> 0])
  /\ UNCHANGED <<mainVars, bridgeVars, answered, tempo, lastSet>>

\* ------------------------------------------------------------------ main
\* module evaluation: the client is constructed (line 48), then main() runs
\* up to its first await, the first completion request
Boot ==
  /\ mainpc = "boot"
  /\ \E outcome \in ConstructorOutcomes(ClientKey(apiKey)) :
       IF outcome = "throw"
       THEN /\ mainpc' = "fault"
            /\ requested' = requested
       ELSE /\ mainpc' = "await1"
            /\ requested' = requested + 1
  /\ UNCHANGED <<apiKey, response, idx, cur, messages, printed, bridgeVars, peerVars, lastSet>>

\* the first completion settles: lines 92-103
FirstCompletion ==
  /\ mainpc = "await1"
  /\ Quiescent
  /\ \E outcome \in CreateOutcomes(ClientKey(apiKey)) :
       IF outcome = "rejected"
       THEN /\ mainpc' = "fault"
            /\ UNCHANGED <<response, messages, idx>>
       ELSE \E resp \in Responses :
              /\ response' = resp
              /\ IF Truthy(resp)
                 THEN /\ messages' = Append(messages, AssistantMessage(resp))
                      /\ idx' = 1
                      /\ mainpc' = "loop"
                 ELSE /\ messages' = messages
                      /\ idx' = idx
                      /\ mainpc' = "done"
  /\ UNCHANGED <<apiKey, cur, printed, requested, bridgeVars, peerVars, lastSet>>

\* the for-of loop takes its next element only when the body has finished
ReadyForNextOrAwaiting == mainpc \in {"loop", "awaitcall"}
ReadyForNext == mainpc = "loop"

\* one iteration of the loop up to its await: lines 107-110
Dispatch ==
  /\ ReadyForNext
  /\ idx <= Len(response.tool_calls)
  /\ LET toolCall == response.tool_calls[idx]
         functionToCall == availableFunctions(toolCall.name)
     IN IF ~IsValidJSON(toolCall.arguments)
        THEN \* JSON.parse throws a SyntaxError
             /\ mainpc' = "fault"
             /\ UNCHANGED <<idx, cur, messages, calls>>
        ELSE IF functionToCall = "undefined"
        THEN \* undefined is not a function: TypeError
             /\ mainpc' = "fault"
             /\ UNCHANGED <<idx, cur, messages, calls>>
        ELSE IF functionToCall = "Object.prototype.toString"
        THEN \* returns at once; the record is pushed, the loop goes on
             /\ messages' = Append(messages, ToolRecord(toolCall, BareToString))
             /\ idx' = idx + 1
             /\ mainpc' = "loop"
             /\ UNCHANGED <<cur, calls>>
        ELSE /\ calls' = Append(calls, NewCall(functionToCall, JSONParse(toolCall.arguments),
                                               "main", idx, 0))
             /\ cur' = Len(calls) + 1
             /\ mainpc' = "awaitcall"
             /\ UNCHANGED <<idx, messages>>
  /\ UNCHANGED <<apiKey, response, printed, requested, listeners, sent, peerVars, lastSet>>

\* the awaited function has settled: lines 110-117
Resume ==
  /\ mainpc = "awaitcall"
  /\ CallDone(cur)
  /\ IF calls[cur].pc = "rejected"
     THEN /\ mainpc' = "fault"
          /\ UNCHANGED <<idx, messages>>
     ELSE /\ messages' = Append(messages, ToolRecord(response.tool_calls[idx],
                                                     MessageToString(calls[cur].ret)))
          /\ idx' = idx + 1
          /\ mainpc' = "loop"
  /\ UNCHANGED <<apiKey, response, cur, printed, requested, bridgeVars, peerVars, lastSet>>

\* the loop is over: the follow-up completion is requested, lines 121-124
RequestFollowUp ==
  /\ mainpc = "loop"
  /\ idx > Len(response.tool_calls)
  /\ mainpc' = "await2"
  /\ requested' = requested + 1
  /\ UNCHANGED <<apiKey, response, idx, cur, messages, printed, bridgeVars, peerVars, lastSet>>

\* the follow-up completion settles: line 127
SecondCompletion ==
  /\ mainpc = "await2"
  /\ Quiescent
  /\ \E outcome \in CreateOutcomes(ClientKey(apiKey)) :
       IF outcome = "rejected"
       THEN /\ mainpc' = "fault"
            /\ printed' = printed
       ELSE \E c \in Contents :
              /\ printed' = Append(printed, c)
              /\ mainpc' = "done"
  /\ UNCHANGED <<apiKey, response, idx, cur, messages, requested, bridgeVars, peerVars, lastSet>>

\* ------------------------------------------- callers of getTempo / setTempo
\* a caller other than main invokes getTempo() or setTempo(v); a sequential
\* caller awaits each call before the next, overlapping callers do not
CallerInvokes(fn, v, overlapping) ==
  /\ mainpc = "off"
  /\ Len(calls) < (IF overlapping THEN MaxConc ELSE MaxOps)
  /\ overlapping \/ (Quiescent /\ \A c \in DOMAIN calls : CallDone(c))
  /\ calls' = Append(calls, NewCall(fn, IF fn = "getTempo" THEN Undefined ELSE Num(v),
                                    "caller", 0, IF fn = "getTempo" THEN lastSet ELSE v))
  /\ lastSet' = IF fn = "setTempo" THEN v ELSE lastSet
  /\ UNCHANGED <<mainVars, listeners, sent, peerVars>>

\* ---------------------------------------------------------- specifications
InitBridge ==
  /\ calls = <<>> /\ listeners = <<>> /\ sent = <<>>
  /\ answered = {} /\ net = {} /\ emitted = <<>> /\ unsol = 0
  /\ tempo \in Bpms
  /\ lastSet = tempo

Init ==
  /\ apiKey \in Keys
  /\ mainpc = "boot"
  /\ response = NoResponse
  /\ idx = 0 /\ cur = 0
  /\ messages = InitialMessages
  /\ printed = <<>>
  /\ requested = 0
  /\ InitBridge

InitCallers ==
  /\ apiKey = "sk-valid"
  /\ mainpc = "off"
  /\ response = NoResponse
  /\ idx = 0 /\ cur = 0
  /\ messages = InitialMessages
  /\ printed = <<>>
  /\ requested = 0
  /\ InitBridge

BridgeStep ==
  \/ \E c \in DOMAIN calls : CallSend(c)
  \/ \E c \in DOMAIN calls : CallRegister(c)
  \/ \E c \in DOMAIN calls : CallReturn(c)
  \/ \E p \in net : Deliver(p)
  \/ \E r \in DOMAIN sent : PeerReply(r)

Next ==
  \/ Boot
  \/ FirstCompletion
  \/ Dispatch
  \/ Resume
  \/ RequestFollowUp
  \/ SecondCompletion
  \/ BridgeStep
  \/ \E a \in Addresses : PeerUnsolicited(a)

Spec == Init /\ [][Next]_vars

\* getTempo / setTempo called one after the other, each awaited
NextSeq ==
  \/ \E fn \in {"getTempo", "setTempo"}, v \in Bpms : CallerInvokes(fn, v, FALSE)
  \/ BridgeStep

SpecSeq == InitCallers /\ [][NextSeq]_vars

\* getTempo / setTempo called without awaiting the previous call
NextConc ==
  \/ \E fn \in {"getTempo", "setTempo"}, v \in Bpms : CallerInvokes(fn, v, TRUE)
  \/ BridgeStep

SpecConc == InitCallers /\ [][NextConc]_vars

\* the same, with an event loop that keeps running, a network that delivers
\* and a peer that answers: a bridge step that stays possible is taken
SpecConcFair == InitCallers /\ [][NextConc]_vars /\ WF_vars(BridgeStep)

TypeOK ==
  /\ apiKey \in Keys
  /\ mainpc \in {"off", "boot", "await1", "loop", "awaitcall", "await2", "done", "fault"}
  /\ idx \in 0..(MaxToolCalls + 1)
  /\ cur \in 0..Len(calls)
  /\ requested \in 0..2
  /\ tempo \in Bpms

\* ----------------------------------------------------------------- helpers
IsPrefix(s, t) == Len(s) <= Len(t) /\ SubSeq(t, 1, Len(s)) = s

ToolCalls == response.tool_calls

\* the calls main has made for tool call i
MainCalls(i) == {c \in DOMAIN calls : calls[c].owner = "main" /\ calls[c].tool = i}

\* the tool records of the transcript that answer tool call i
RecordsFor(i) ==
  {k \in DOMAIN messages : messages[k].role = "tool"
                           /\ messages[k].tool_call_id = ToolCalls[i].id}

\* the peer has sent a packet on the address
PeerSentOn(address) == \E k \in DOMAIN emitted : emitted[k].address = address

\* the packets sent to the peer for call c
PacketsOf(c) == {k \in DOMAIN sent : sent[k].call = c}

\* ------------------------------------------------------------------ claims

\* C1 (as claimed): when the first response carries no tool calls (no
\* tool_calls list, or an empty one) and main has finished, no local
\* function was invoked and exactly the content of that response was printed.
C1_NoToolCallsPrintsContent ==
  (mainpc = "done" /\ ToolCalls = <<>>)
    => (calls = <<>> /\ printed = <<response.content>>)

\* C2 (as claimed): once the function of a tool call set_song_tempo with
\* arguments {"bpm":120} has run its send, exactly one packet was sent for it,
\* on /live/song/set/tempo, and its only argument is the number 120; the
\* content of the tool record is taken from the first packet its listener
\* received.
C2_SetTempoSendsBpm ==
  \A c \in DOMAIN calls :
    (/\ calls[c].owner = "main"
     /\ ToolCalls[calls[c].tool].name = "set_song_tempo"
     /\ ToolCalls[calls[c].tool].arguments = "{\"bpm\":120}"
     /\ calls[c].pc # "send")
    => /\ Cardinality(PacketsOf(c)) = 1
       /\ \A k \in PacketsOf(c) : sent[k].address = SetAddress /\ sent[k].args = <<Num(120)>>
       /\ \A k \in RecordsFor(calls[c].tool) :
            /\ listeners[calls[c].lis].received # <<>>
            /\ calls[c].ret.id = Head(listeners[calls[c].lis].received)
            /\ messages[k].content = MessageToString(calls[c].ret)

\* C3: a promise of waitForMessage is pending as long as its listener has
\* received nothing, and from the first packet on it holds that first packet
\* (a packet on the listener's address), whatever arrives later.
C3_ResolvesWithFirstPacketOnly ==
  \A l \in DOMAIN listeners :
    IF listeners[l].received = <<>>
    THEN ~listeners[l].promise.settled
    ELSE /\ listeners[l].promise.settled
         /\ listeners[l].promise.value.id = Head(listeners[l].received)
         /\ listeners[l].promise.value.address = listeners[l].address

\* a settled listener that a later packet has reached
C3_Witness ==
  \E l \in DOMAIN listeners :
    /\ Len(listeners[l].received) >= 2
    /\ listeners[l].promise.settled
    /\ listeners[l].received[2] # listeners[l].promise.value.id

\* the transcript is the initial messages, the assistant message and one
\* correlated tool record for each of the first k tool calls, in order
TranscriptShape(k) ==
  /\ Len(messages) = 3 + k
  /\ SubSeq(messages, 1, 2) = InitialMessages
  /\ messages[3] = AssistantMessage(response)
  /\ \A i \in 1..k : /\ messages[3 + i].role = "tool"
                     /\ messages[3 + i].tool_call_id = ToolCalls[i].id
                     /\ messages[3 + i].name = ToolCalls[i].name

\* C4: once the follow-up completion has been requested the transcript is the
\* initial messages, the assistant message, then one correlated tool record
\* per tool call in order; and every step leaves the old transcript as a
\* prefix of the new one.
C4_TranscriptAppendOnly ==
  /\ [](requested = 2 => TranscriptShape(Len(ToolCalls)))
  /\ [][IsPrefix(messages, messages')]_vars

\* the follow-up was requested after two tool calls with different names
C4_Witness ==
  /\ requested = 2
  /\ Len(ToolCalls) = 2
  /\ ToolCalls[1].name # ToolCalls[2].name
  /\ Len(messages) = 5

\* C5: two waits on one address that overlap (the earlier listener had
\* received nothing when the later one was registered) resolve with the same
\* packet.
C5_OverlappingWaitsShareReply ==
  \A l1, l2 \in DOMAIN listeners :
    (/\ listeners[l1].address = listeners[l2].address
     /\ Len(listeners[l1].received) = Len(listeners[l2].received)
     /\ listeners[l1].promise.settled
     /\ listeners[l2].promise.settled)
    => listeners[l1].promise.value = listeners[l2].promise.value

\* two overlapping calls have returned the same reply packet, which answers
\* the request of one of them and not the request of the other
C5_Witness ==
  \E c1, c2 \in DOMAIN calls :
    /\ c1 # c2
    /\ calls[c1].pc = "returned" /\ calls[c2].pc = "returned"
    /\ calls[c1].ret = calls[c2].ret
    /\ calls[c1].ret.re = calls[c1].req
    /\ calls[c2].ret.re # calls[c2].req

\* tool call i names no key of availableFunctions or carries invalid JSON
Undispatchable(i) ==
  ToolCalls[i].name \notin OwnTools \/ ~IsValidJSON(ToolCalls[i].arguments)

\* C6 (as claimed): for a tool call whose name is not a key of
\* availableFunctions, or whose argument string is not valid JSON, main never
\* finishes normally: no call is made and no packet sent for it, no tool
\* record is appended for it, no follow-up is requested, nothing is printed.
C6_UnknownToolOrBadJSONFaults ==
  \A i \in DOMAIN ToolCalls :
    Undispatchable(i)
    => /\ MainCalls(i) = {}
       /\ RecordsFor(i) = {}
       /\ requested < 2
       /\ printed = <<>>
       /\ mainpc # "done"

\* C7: as long as the peer has sent no packet on the address a call queries,
\* the call has not returned, and main has appended no tool record for the
\* tool call, requested no follow-up and printed nothing.
C7_UnansweredBlocksForever ==
  /\ \A c \in DOMAIN calls :
       ~PeerSentOn(AddressOf(calls[c].fn)) => calls[c].pc # "returned"
  /\ \A i \in DOMAIN ToolCalls :
       (ToolCalls[i].name \in OwnTools
        /\ ~PeerSentOn(AddressOf(availableFunctions(ToolCalls[i].name))))
       => /\ RecordsFor(i) = {}
          /\ requested < 2
          /\ printed = <<>>

\* main waits for a reply while the peer has sent nothing on that address
C7_Witness ==
  /\ mainpc = "awaitcall"
  /\ calls[cur].pc = "wait"
  /\ ~PeerSentOn(AddressOf(calls[cur].fn))
  /\ Quiescent
  /\ net = {}

\* C8: with calls made one after the other to a peer that stores the tempo
\* and replies to every request, every getTempo returns the tempo last set
\* before it (the peer's initial tempo when none was set).
C8_GetReturnsLastSet ==
  \A c \in DOMAIN calls :
    (calls[c].fn = "getTempo" /\ calls[c].pc = "returned")
    => calls[c].ret.args = <<calls[c].expect>>

\* getTempo, setTempo(v), getTempo, setTempo(v), getTempo have all returned,
\* v differs from the tempo the first getTempo saw
C8_Witness ==
  /\ Len(calls) = 5
  /\ \A c \in {1, 3, 5} : calls[c].fn = "getTempo"
  /\ \A c \in {2, 4} : calls[c].fn = "setTempo"
  /\ \A c \in 1..5 : calls[c].pc = "returned"
  /\ calls[2].arg = calls[4].arg
  /\ calls[1].ret.args # calls[3].ret.args
  /\ calls[3].ret.args = <<calls[2].arg.v>>
  /\ calls[5].ret.args = <<calls[2].arg.v>>

\* C9: without a usable API key main gets no further than the first
\* completion request: nothing is dispatched, no packet is sent, nothing is
\* appended to the transcript, nothing is printed.
C9_NoKeyNoDispatch ==
  apiKey # "sk-valid"
    => /\ mainpc \in {"boot", "await1", "fault"}
       /\ response = NoResponse
       /\ calls = <<>>
       /\ sent = <<>>
       /\ messages = InitialMessages
       /\ printed = <<>>
       /\ requested <= 1

\* the first completion request was made with an empty key and has failed
C9_Witness == apiKey = "empty" /\ mainpc = "fault" /\ requested = 1

\* C10: main has at most one call outstanding, and a call for tool call i
\* exists only when the records of tool calls 1..i-1 are on the transcript.
C10_SequentialDispatch ==
  /\ Cardinality({c \in DOMAIN calls : calls[c].owner = "main" /\ ~CallDone(c)}) <= 1
  /\ \A c \in DOMAIN calls :
       calls[c].owner = "main"
       => /\ Cardinality(MainCalls(calls[c].tool)) = 1
          /\ Len(messages) >= 3 + calls[c].tool - 1
          /\ \A j \in 1..(calls[c].tool - 1) :
               messages[3 + j].tool_call_id = ToolCalls[j].id

\* the function of the second tool call is running, the first has returned
C10_Witness ==
  /\ Len(calls) = 2
  /\ calls[1].pc = "returned"
  /\ calls[2].pc = "wait"
  /\ calls[2].tool = 2
  /\ Len(messages) = 4

\* the replies the peer has sent in answer to the request of call c
RepliesTo(c) ==
  {k \in DOMAIN emitted : calls[c].req # 0 /\ emitted[k].re = calls[c].req}

\* C11: a call sends its request before it registers its listener, and still
\* every reply to that request that has arrived was handed to the call's
\* listener; with a peer that answers every request every call returns
\* (again and again all the calls made so far have returned).
C11_NoReplyLost ==
  /\ [](\A c \in DOMAIN calls :
          /\ calls[c].pc = "send" => (calls[c].req = 0 /\ calls[c].lis = 0)
          /\ calls[c].lis # 0 => calls[c].req # 0
          /\ \A k \in RepliesTo(c) :
               emitted[k] \notin net
               => /\ calls[c].lis # 0
                  /\ \E n \in DOMAIN listeners[calls[c].lis].received :
                       listeners[calls[c].lis].received[n] = emitted[k].id)
  /\ []<>(\A c \in DOMAIN calls : calls[c].pc = "returned")

\* the reply to a request is on its way while the call that sent the
\* request has not registered its listener yet
C11_Witness ==
  \E c \in DOMAIN calls :
    /\ calls[c].pc = "sent"
    /\ calls[c].lis = 0
    /\ \E p \in net : p.re = calls[c].req

====
